---- MODULE Spec2Model ----
(* Model of scripts/generate_icons.py: build_logo (the U mark renderer) and  *)
(* main (the batch writer).  build_logo is followed statement group by       *)
(* statement group for one call and one observed pixel (px, py) of its       *)
(* size x size buffers; main is followed through mkdir, the construction of  *)
(* the outputs table and the save/print loop.                                *)
EXTENDS Integers, Sequences, FiniteSets, TLC

(* ------------------------------------------------------------------------ *)
(* Bounds of the model.                                                      *)
(* ------------------------------------------------------------------------ *)
\* Largest canvas size a build_logo call is checked with.
MaxSize == 2880
\* Sizes up to this one are checked with every colour option and a grid of
\* sample pixels; larger sizes with the default options and the four corners.
MaxPixelSize == 40

(* ------------------------------------------------------------------------ *)
(* Palette (lines 20-21) and the colours main passes.                        *)
(* ------------------------------------------------------------------------ *)
PRIMARY == <<58, 84, 96, 255>>
BACKGROUND == <<236, 238, 239, 255>>
BLACK == <<0, 0, 0, 255>>
TRANSPARENT == <<0, 0, 0, 0>>

(* ------------------------------------------------------------------------ *)
(* int(size * f) for a decimal literal f = n/1000, as CPython computes it:   *)
(* the literal is the nearest IEEE-754 double M / 2^E (2^52 <= M < 2^53),    *)
(* the product is rounded to the nearest double (ties to even) and int()     *)
(* truncates.  With r = 1000*M - n*2^E (the literal's rounding residue) the  *)
(* exact product is size*n/1000 + size*r/(1000*2^E).  The second term is far *)
(* below 1/1000, so the truncation differs from floor(size*n/1000) only when *)
(* size*n/1000 is an integer q and r < 0: then the exact product lies just   *)
(* below q and the rounding returns q iff the distance is at most half the   *)
(* gap between q and the double below it, which is 2^(j-53) for              *)
(* 2^j < q < 2^(j+1) and 2^(j-54) for q = 2^j.  k is 2^(E-53).               *)
(* ------------------------------------------------------------------------ *)
RECURSIVE Pow2Le(_)
Pow2Le(q) == IF q < 2 THEN 1 ELSE 2 * Pow2Le(q \div 2)

FloatMulInt(s, f) ==
    LET q == (s * f.n) \div 1000
        rem == (s * f.n) % 1000
        p == Pow2Le(q)
        lim == IF q = p THEN 500 * f.k * p ELSE 1000 * f.k * p
    IN  IF rem # 0 \/ f.r >= 0 \/ q = 0 THEN q
        ELSE IF s * (0 - f.r) <= lim THEN q ELSE q - 1

\* The literals of lines 40-45: per-mille value n, residue r, k = 2^(E-53).
F_TOP == [n |-> 150, r |-> -200, k |-> 4]
F_BAR_BOTTOM == [n |-> 620, r |-> -40, k |-> 1]
F_BAR_WIDTH == [n |-> 195, r |-> 240, k |-> 4]
F_GAP == [n |-> 220, r |-> 40, k |-> 4]
F_PADDING == [n |-> 88, r |-> -368, k |-> 8]
F_RADIUS == [n |-> 186, r |-> -48, k |-> 4]

\* int(v) of a half-integer v = n/2 (exact in double): truncation toward zero.
IntHalf(n) == IF n >= 0 THEN n \div 2 ELSE 0 - ((0 - n) \div 2)

\* math.ceil(n / 2)
CeilHalf(n) == IF n >= 0 THEN (n + 1) \div 2 ELSE 0 - ((0 - n) \div 2)

Max(a, b) == IF a >= b THEN a ELSE b

(* ------------------------------------------------------------------------ *)
(* Geometry of build_logo as functions of size (lines 40-57).                *)
(* ------------------------------------------------------------------------ *)
Top(s) == FloatMulInt(s, F_TOP)
\* Variant: the bars end at 92% of the canvas.
BarBottomDeep(s) == FloatMulInt(s, [n |-> 920, r |-> 0, k |-> 1])
BarBottom(s) == FloatMulInt(s, F_BAR_BOTTOM)
BarWidth(s) == FloatMulInt(s, F_BAR_WIDTH)
Gap(s) == FloatMulInt(s, F_GAP)
\* Variant: the padding never drops below one pixel.
PaddingAtLeastOne(s) == Max(FloatMulInt(s, F_PADDING), 1)
\* Variant: the padding is 18.8% of the canvas.
PaddingWide(s) == FloatMulInt(s, [n |-> 188, r |-> 0, k |-> 1])
Padding(s) == FloatMulInt(s, F_PADDING)
Radius(s) == FloatMulInt(s, F_RADIUS)

\* Variant: the clamp is applied without the test of line 49.
ClampRadiusAlways(s, bb, rad, pad) ==
    Max(rad - CeilHalf(bb + 2 * rad - s), pad + 4)

\* Lines 48-52: the radius after the overflow clamp.
ClampRadius(s, bb, rad, pad) ==
    IF bb + 2 * rad > s
    THEN Max(rad - CeilHalf(bb + 2 * rad - s), pad + 4)
    ELSE rad

LeftX1(s, g, bw) == IntHalf(s - g - 2 * bw)
LeftX2(s, g) == IntHalf(s - g)
RightX1(s, g) == IntHalf(s + g)
RightX2(s, g, bw) == IntHalf(s + g + 2 * bw)

\* Line 73.
InnerRadius(rad, pad) == Max(rad - pad, 8)

(* ------------------------------------------------------------------------ *)
(* Raster primitives on one pixel of a mode "L" buffer.  ImageDraw paints    *)
(* without antialiasing, so a primitive either sets a pixel to its fill or   *)
(* leaves it.  rectangle fills its box with both corners included; which     *)
(* pixels of its bounding box a pieslice covers, and which pixels a wide     *)
(* polyline covers, is decided inside the imaging library and is left open.  *)
(* ------------------------------------------------------------------------ *)
FILL == 255

InBox(box, x, y) == box[1] <= x /\ x <= box[3] /\ box[2] <= y /\ y <= box[4]

WellOrdered(box) == box[1] <= box[3] /\ box[2] <= box[4]

DrawRectangle(v, box, x, y) == IF InBox(box, x, y) THEN FILL ELSE v

\* hit: whether the library's half-ellipse covers the pixel.
DrawPieslice(v, box, x, y, hit) == IF hit /\ InBox(box, x, y) THEN FILL ELSE v

\* Variant: the polyline is antialiased.
LineValuesAntialiased == {0, 128, FILL}

\* The values wave_draw.line(..., fill=255) can leave in a pixel (line 109).
LineValues == {0, FILL}

\* Variant: ImageChops.difference, |a - b|.
ChopsDifference(a, b) == IF a >= b THEN a - b ELSE b - a

\* ImageChops.subtract(a, b): a - b clipped to 0..255 (scale 1, offset 0).
ChopsSubtract(a, b) == Max(0, a - b)

\* ImageChops.multiply(a, b): a * b / 255.
ChopsMultiply(a, b) == (a * b) \div 255

\* Line 33.
CanvasColor(bg, incl) == IF incl THEN bg ELSE TRANSPARENT

\* image.paste(colour, mask=mask) on one pixel: the mask value is the opacity.
Paste(old, colour, m) ==
    IF m = 0 THEN old
    ELSE IF m = 255 THEN colour
    ELSE [i \in 1..4 |-> (old[i] * (255 - m) + colour[i] * m + 127) \div 255]

\* Variant: the canvas is one pixel larger than asked.
CanvasDimsPlusOne(s) == <<s + 1, s + 1>>

\* Image.new(mode, (size, size), ...): the dimensions of the returned canvas.
CanvasDims(s) == <<s, s>>

(* ------------------------------------------------------------------------ *)
(* State.                                                                    *)
(* ------------------------------------------------------------------------ *)
VARIABLES
    \* build_logo: arguments, and the pixel the model follows
    size, primary, background, include_background, px, py,
    \* build_logo: position, locals of lines 40-57 and 67-74
    pc, top, bar_bottom, bar_width, gap, padding, radius, arc_bottom,
    left_x1, left_x2, right_x1, right_x2,
    inner_left_x1, inner_left_x2, inner_right_x1, inner_right_x2,
    inner_top, inner_bar_bottom, inner_radius, inner_arc_bottom,
    \* build_logo: the buffers at (px, py)
    image, mask, inner, wave_mask,
    \* history: mask after line 62, mask after line 82, wave_mask after line 109
    outer_mask, stroke_mask, wave_drawn,
    \* main: position, directory, files, outputs table, loop index, output
    mpc, dir_exists, disk, disk0, outputs, idx, saved, stdout

argVars == <<size, primary, background, include_background, px, py>>
geomVars == <<top, bar_bottom, bar_width, gap, padding, radius, arc_bottom,
              left_x1, left_x2, right_x1, right_x2>>
innerVars == <<inner_left_x1, inner_left_x2, inner_right_x1, inner_right_x2,
               inner_top, inner_bar_bottom, inner_radius, inner_arc_bottom>>
histVars == <<outer_mask, stroke_mask, wave_drawn>>
mainVars == <<mpc, dir_exists, disk, disk0, outputs, idx, saved, stdout>>
logoVars == <<argVars, pc, geomVars, innerVars, image, mask, inner, wave_mask, histVars>>
vars == <<logoVars, mainVars>>

(* ------------------------------------------------------------------------ *)
(* main's table (lines 128-135): name, size, include_background, primary,    *)
(* and whether the entry is a build_logo call or solid_background.           *)
(* ------------------------------------------------------------------------ *)
OutputTable ==
    << [name |-> "icon.png", size |-> 1024, logo |-> TRUE,
        include_background |-> TRUE, primary |-> PRIMARY],
       [name |-> "splash-icon.png", size |-> 1024, logo |-> TRUE,
        include_background |-> TRUE, primary |-> PRIMARY],
       [name |-> "favicon.png", size |-> 48, logo |-> TRUE,
        include_background |-> TRUE, primary |-> PRIMARY],
       [name |-> "android-icon-foreground.png", size |-> 512, logo |-> TRUE,
        include_background |-> FALSE, primary |-> PRIMARY],
       [name |-> "android-icon-monochrome.png", size |-> 432, logo |-> TRUE,
        include_background |-> FALSE, primary |-> BLACK],
       [name |-> "android-icon-background.png", size |-> 512, logo |-> FALSE,
        include_background |-> TRUE, primary |-> BACKGROUND] >>

MainSizes == {OutputTable[i].size : i \in 1..Len(OutputTable)}

(* ------------------------------------------------------------------------ *)
(* build_logo: one call.                                                     *)
(* ------------------------------------------------------------------------ *)
\* Sizes checked with every option and the sample pixels.
Detailed(s) == s <= MaxPixelSize \/ s \in MainSizes

SampleX(s) ==
    LET g == Gap(s)  bw == BarWidth(s)  p == Padding(s)
    IN  {0, s - 1, s \div 2, LeftX1(s, g, bw), LeftX1(s, g, bw) + p,
         LeftX2(s, g), RightX2(s, g, bw)} \cap (0..(s - 1))

SampleY(s) ==
    LET t == Top(s)  bb == BarBottom(s)  p == Padding(s)
    IN  {0, s - 1, t, t + p, bb, bb + p, bb + p + 8} \cap (0..(s - 1))

MainIdle ==
    /\ mpc = "idle" /\ dir_exists = FALSE /\ disk = {} /\ disk0 = {}
    /\ outputs = <<>> /\ idx = 0 /\ saved = <<>> /\ stdout = <<>>

\* The locals hold 0 until the statement that assigns them has run.
InitLogo ==
    /\ size \in 1..MaxSize
    /\ background = BACKGROUND
    /\ IF Detailed(size)
       THEN /\ primary \in {PRIMARY, BLACK}
            /\ include_background \in BOOLEAN
            /\ px \in SampleX(size)
            /\ py \in SampleY(size)
       ELSE /\ primary = PRIMARY
            /\ include_background = TRUE
            /\ px \in {0, size - 1}
            /\ py \in {0, size - 1}
    /\ pc = "new"
    /\ top = 0 /\ bar_bottom = 0 /\ bar_width = 0 /\ gap = 0 /\ padding = 0
    /\ radius = 0 /\ arc_bottom = 0
    /\ left_x1 = 0 /\ left_x2 = 0 /\ right_x1 = 0 /\ right_x2 = 0
    /\ inner_left_x1 = 0 /\ inner_left_x2 = 0 /\ inner_right_x1 = 0
    /\ inner_right_x2 = 0 /\ inner_top = 0 /\ inner_bar_bottom = 0
    /\ inner_radius = 0 /\ inner_arc_bottom = 0
    /\ image = TRANSPARENT /\ mask = 0 /\ inner = 0 /\ wave_mask = 0
    /\ outer_mask = 0 /\ stroke_mask = 0 /\ wave_drawn = 0
    /\ MainIdle

\* Lines 33-37.
NewCanvas ==
    /\ pc = "new"
    /\ image' = CanvasColor(background, include_background)
    /\ mask' = 0
    /\ pc' = "offsets"
    /\ UNCHANGED <<argVars, geomVars, innerVars, inner, wave_mask, histVars, mainVars>>

\* Lines 39-45.
ComputeOffsets ==
    /\ pc = "offsets"
    /\ top' = Top(size)
    /\ bar_bottom' = BarBottom(size)
    /\ bar_width' = BarWidth(size)
    /\ gap' = Gap(size)
    /\ padding' = Padding(size)
    /\ radius' = Radius(size)
    /\ pc' = "clamp"
    /\ UNCHANGED <<argVars, arc_bottom, left_x1, left_x2, right_x1, right_x2,
                   innerVars, image, mask, inner, wave_mask, histVars, mainVars>>

\* Lines 47-52.
ClampArc ==
    /\ pc = "clamp"
    /\ radius' = ClampRadius(size, bar_bottom, radius, padding)
    /\ arc_bottom' = bar_bottom + 2 * radius'
    /\ pc' = "bars"
    /\ UNCHANGED <<argVars, top, bar_bottom, bar_width, gap, padding,
                   left_x1, left_x2, right_x1, right_x2,
                   innerVars, image, mask, inner, wave_mask, histVars, mainVars>>

\* Lines 54-57.
ComputeBars ==
    /\ pc = "bars"
    /\ left_x1' = LeftX1(size, gap, bar_width)
    /\ left_x2' = LeftX2(size, gap)
    /\ right_x1' = RightX1(size, gap)
    /\ right_x2' = RightX2(size, gap, bar_width)
    /\ pc' = "outer"
    /\ UNCHANGED <<argVars, top, bar_bottom, bar_width, gap, padding, radius,
                   arc_bottom, innerVars, image, mask, inner, wave_mask,
                   histVars, mainVars>>

\* The boxes handed to the drawing primitives (lines 60-62 and 76-80).
OuterLeftBox == <<left_x1, top, left_x2, bar_bottom>>
OuterRightBox == <<right_x1, top, right_x2, bar_bottom>>
OuterPieBox == <<left_x1, bar_bottom, right_x2, arc_bottom>>
InnerLeftBox == <<inner_left_x1, inner_top, inner_left_x2, inner_bar_bottom>>
InnerRightBox == <<inner_right_x1, inner_top, inner_right_x2, inner_bar_bottom>>
InnerPieBox == <<inner_left_x1, inner_bar_bottom, inner_right_x2, inner_arc_bottom>>

\* Lines 59-62.
DrawOuter ==
    /\ pc = "outer"
    /\ \E hit \in BOOLEAN :
         mask' = DrawPieslice(
                    DrawRectangle(DrawRectangle(mask, OuterLeftBox, px, py),
                                  OuterRightBox, px, py),
                    OuterPieBox, px, py, hit)
    /\ outer_mask' = mask'
    /\ pc' = "inner_geom"
    /\ UNCHANGED <<argVars, geomVars, innerVars, image, inner, wave_mask,
                   stroke_mask, wave_drawn, mainVars>>

\* Lines 65-74.
ComputeInner ==
    /\ pc = "inner_geom"
    /\ inner' = 0
    /\ inner_left_x1' = left_x1 + padding
    /\ inner_left_x2' = left_x2 - padding
    /\ inner_right_x1' = right_x1 + padding
    /\ inner_right_x2' = right_x2 - padding
    /\ inner_top' = top + padding
    /\ inner_bar_bottom' = bar_bottom + padding
    /\ inner_radius' = InnerRadius(radius, padding)
    /\ inner_arc_bottom' = inner_bar_bottom' + 2 * inner_radius'
    /\ pc' = "inner_draw"
    /\ UNCHANGED <<argVars, geomVars, image, mask, wave_mask, histVars, mainVars>>

\* Lines 76-80.
DrawInner ==
    /\ pc = "inner_draw"
    /\ \E hit \in BOOLEAN :
         inner' = DrawPieslice(
                     DrawRectangle(DrawRectangle(inner, InnerLeftBox, px, py),
                                   InnerRightBox, px, py),
                     InnerPieBox, px, py, hit)
    /\ pc' = "subtract"
    /\ UNCHANGED <<argVars, geomVars, innerVars, image, mask, wave_mask,
                   histVars, mainVars>>

\* Line 82.
SubtractInner ==
    /\ pc = "subtract"
    /\ mask' = ChopsSubtract(mask, inner)
    /\ stroke_mask' = mask'
    /\ pc' = "waves"
    /\ UNCHANGED <<argVars, geomVars, innerVars, image, inner, wave_mask,
                   outer_mask, wave_drawn, mainVars>>

\* Lines 84-109: the four polylines, drawn into a fresh buffer.
DrawWaves ==
    /\ pc = "waves"
    /\ wave_mask' \in LineValues
    /\ wave_drawn' = wave_mask'
    /\ pc' = "multiply"
    /\ UNCHANGED <<argVars, geomVars, innerVars, image, mask, inner,
                   outer_mask, stroke_mask, mainVars>>

\* Line 111.
MultiplyWaves ==
    /\ pc = "multiply"
    /\ wave_mask' = ChopsMultiply(wave_mask, mask)
    /\ pc' = "carve"
    /\ UNCHANGED <<argVars, geomVars, innerVars, image, mask, inner,
                   histVars, mainVars>>

\* Line 112.
SubtractWaves ==
    /\ pc = "carve"
    /\ mask' = ChopsSubtract(mask, wave_mask)
    /\ pc' = "paste"
    /\ UNCHANGED <<argVars, geomVars, innerVars, image, inner, wave_mask,
                   histVars, mainVars>>

\* Lines 114-115.
PasteAndReturn ==
    /\ pc = "paste"
    /\ image' = Paste(image, primary, mask)
    /\ pc' = "done"
    /\ UNCHANGED <<argVars, geomVars, innerVars, mask, inner, wave_mask,
                   histVars, mainVars>>

NextLogo ==
    \/ NewCanvas
    \/ ComputeOffsets
    \/ ClampArc
    \/ ComputeBars
    \/ DrawOuter
    \/ ComputeInner
    \/ DrawInner
    \/ SubtractInner
    \/ DrawWaves
    \/ MultiplyWaves
    \/ SubtractWaves
    \/ PasteAndReturn

Spec == InitLogo /\ [][NextLogo]_vars

(* ------------------------------------------------------------------------ *)
(* main: one batch run.  disk maps the file names present in images_dir to   *)
(* the pixel dimensions of their content (<<0, 0>> for a file that was there *)
(* before the run); disk0 is disk at the start; saved is the history of      *)
(* successful image.save calls; stdout the printed "wrote" lines.            *)
(* ------------------------------------------------------------------------ *)
\* Line 120.
SolidBackgroundDims(s) == <<s, s>>

\* The image an entry of the table evaluates to (lines 129-134): its dimensions.
ImageDims(e) == IF e.logo THEN CanvasDims(e.size) ELSE SolidBackgroundDims(e.size)

TableNames == {OutputTable[i].name : i \in 1..Len(OutputTable)}

\* Names a directory left by an earlier run or by hand may hold.
OldNames == TableNames \cup {"notes.txt"}

LogoIdle ==
    /\ size = 1 /\ primary = PRIMARY /\ background = BACKGROUND
    /\ include_background = TRUE /\ px = 0 /\ py = 0
    /\ pc = "idle"
    /\ top = 0 /\ bar_bottom = 0 /\ bar_width = 0 /\ gap = 0 /\ padding = 0
    /\ radius = 0 /\ arc_bottom = 0
    /\ left_x1 = 0 /\ left_x2 = 0 /\ right_x1 = 0 /\ right_x2 = 0
    /\ inner_left_x1 = 0 /\ inner_left_x2 = 0 /\ inner_right_x1 = 0
    /\ inner_right_x2 = 0 /\ inner_top = 0 /\ inner_bar_bottom = 0
    /\ inner_radius = 0 /\ inner_arc_bottom = 0
    /\ image = TRANSPARENT /\ mask = 0 /\ inner = 0 /\ wave_mask = 0
    /\ outer_mask = 0 /\ stroke_mask = 0 /\ wave_drawn = 0

InitMain ==
    /\ LogoIdle
    /\ mpc = "mkdir"
    /\ dir_exists \in BOOLEAN
    /\ \E present \in SUBSET OldNames :
         /\ (~dir_exists => present = {})
         /\ disk = [n \in present |-> <<0, 0>>]
    /\ disk0 = disk
    /\ outputs = <<>>
    /\ idx = 0
    /\ saved = <<>>
    /\ stdout = <<>>

\* Line 126, the directory is there afterwards.
MkdirOk ==
    /\ mpc = "mkdir"
    /\ dir_exists' = TRUE
    /\ mpc' = "build"
    /\ UNCHANGED <<logoVars, disk, disk0, outputs, idx, saved, stdout>>

\* Line 126 raises: the exception leaves main.
MkdirFails ==
    /\ mpc = "mkdir"
    /\ mpc' = "aborted"
    /\ UNCHANGED <<logoVars, dir_exists, disk, disk0, outputs, idx, saved, stdout>>

\* Lines 128-135: every image is built before the first one is saved.
BuildOutputs ==
    /\ mpc = "build"
    /\ outputs' = [i \in 1..Len(OutputTable) |->
                     [name |-> OutputTable[i].name, dims |-> ImageDims(OutputTable[i])]]
    /\ idx' = 1
    /\ mpc' = "save"
    /\ UNCHANGED <<logoVars, dir_exists, disk, disk0, saved, stdout>>

\* Lines 137-139: image.save(destination) succeeds.
SaveOk ==
    /\ mpc = "save"
    /\ idx <= Len(outputs)
    /\ LET e == outputs[idx]
       IN  /\ disk' = [n \in (DOMAIN disk) \cup {e.name} |->
                         IF n = e.name THEN e.dims ELSE disk[n]]
           /\ saved' = Append(saved, <<e.name, e.dims[1], e.dims[2]>>)
    /\ mpc' = "print"
    /\ UNCHANGED <<logoVars, dir_exists, disk0, outputs, idx, stdout>>

\* Variant: the failed save is swallowed and the loop goes on.
SaveFailsSkipped ==
    /\ mpc = "save"
    /\ idx <= Len(outputs)
    /\ idx' = idx + 1
    /\ mpc' = "save"
    /\ UNCHANGED <<logoVars, dir_exists, disk, disk0, outputs, saved, stdout>>

\* Line 139 raises: the exception leaves the loop and main.
SaveFails ==
    /\ mpc = "save"
    /\ idx <= Len(outputs)
    /\ mpc' = "aborted"
    /\ UNCHANGED <<logoVars, dir_exists, disk, disk0, outputs, idx, saved, stdout>>

\* Line 140, then the next iteration.
PrintWrote ==
    /\ mpc = "print"
    /\ LET e == outputs[idx]
       IN  stdout' = Append(stdout, <<e.name, e.dims[1], e.dims[2]>>)
    /\ idx' = idx + 1
    /\ mpc' = "save"
    /\ UNCHANGED <<logoVars, dir_exists, disk, disk0, outputs, saved>>

\* The loop of line 137 is exhausted: main returns.
Finish ==
    /\ mpc = "save"
    /\ idx > Len(outputs)
    /\ mpc' = "done"
    /\ UNCHANGED <<logoVars, dir_exists, disk, disk0, outputs, idx, saved, stdout>>

NextMain ==
    \/ MkdirOk
    \/ MkdirFails
    \/ BuildOutputs
    \/ SaveOk
    \/ SaveFails
    \/ PrintWrote
    \/ Finish

SpecMain == InitMain /\ [][NextMain]_vars

(* ------------------------------------------------------------------------ *)
(* Properties of build_logo (checked under Spec).                            *)
(* ------------------------------------------------------------------------ *)
PcOrder == <<"new", "offsets", "clamp", "bars", "outer", "inner_geom", "inner_draw",
             "subtract", "waves", "multiply", "carve", "paste", "done">>

PcIndex(p) == CHOOSE i \in 1..Len(PcOrder) : PcOrder[i] = p

\* The call has come at least as far as position p.
Reached(p) == pc # "idle" /\ PcIndex(pc) >= PcIndex(p)

\* floor(n/1000 * s) in exact arithmetic.
Floor1000(n, s) == (n * s) \div 1000

\* The radius build_logo(s) ends with.
RadiusAfterClamp(s) == ClampRadius(s, BarBottom(s), Radius(s), Padding(s))

\* C1: for every size from 32 to 2048, once the clamp of lines 48-52 has run,
\* bar_bottom + 2*radius <= size with bar_bottom = floor(0.62*size): the outer
\* arc never extends past the bottom edge of the canvas.
ArcFitsCanvas ==
    (Reached("bars") /\ size \in 32..2048) =>
        /\ bar_bottom = Floor1000(620, size)
        /\ arc_bottom = bar_bottom + 2 * radius
        /\ bar_bottom + 2 * radius <= size

\* C1 witness: the clamp has run for a size of the range and left a real arc.
ArcFitsCanvasWitness ==
    /\ pc = "bars" /\ size = 32
    /\ bar_bottom = 19 /\ radius = 5 /\ arc_bottom = 29

\* C10: the overflow branch is never taken: when line 49 is reached,
\* bar_bottom + 2*radius <= size already holds, and after the clamp radius is
\* still floor(0.186*size).
OverflowNeverTaken ==
    /\ pc = "clamp" => bar_bottom + 2 * radius <= size
    /\ Reached("bars") => radius = Floor1000(186, size)

\* C10 witness: the clamp statement has run and left the radius as computed.
OverflowNeverTakenWitness ==
    /\ pc = "bars" /\ size = 1024
    /\ radius = 190 /\ bar_bottom = 634 /\ arc_bottom = 1014

\* C6 (as claimed): every offset equals floor(f*size) for its fraction f, so
\* offset(2*size) - 2*offset(size) is 0 or 1 and the offset is non-decreasing
\* in size; for radius the value after the clamp.
OffsetsAreExactFloors ==
    Reached("bars") =>
        /\ top = Floor1000(150, size)
        /\ bar_width = Floor1000(195, size)
        /\ gap = Floor1000(220, size)
        /\ padding = Floor1000(88, size)
        /\ radius = Floor1000(186, size)
        /\ Top(2 * size) - 2 * top \in {0, 1}
        /\ BarWidth(2 * size) - 2 * bar_width \in {0, 1}
        /\ Gap(2 * size) - 2 * gap \in {0, 1}
        /\ Padding(2 * size) - 2 * padding \in {0, 1}
        /\ RadiusAfterClamp(2 * size) - 2 * radius \in {0, 1}
        /\ Top(size + 1) >= top
        /\ BarWidth(size + 1) >= bar_width
        /\ Gap(size + 1) >= gap
        /\ Padding(size + 1) >= padding
        /\ RadiusAfterClamp(size + 1) >= radius

\* C6, the part the code does satisfy: the doubling and the monotonicity of
\* the offsets as the code computes them, and exact floors below size 2875.
OffsetsScaleAsComputed ==
    Reached("bars") =>
        /\ Top(2 * size) - 2 * top \in {0, 1}
        /\ BarWidth(2 * size) - 2 * bar_width \in {0, 1}
        /\ Gap(2 * size) - 2 * gap \in {0, 1}
        /\ Padding(2 * size) - 2 * padding \in {0, 1}
        /\ RadiusAfterClamp(2 * size) - 2 * radius \in {0, 1}
        /\ Top(size + 1) >= top
        /\ BarWidth(size + 1) >= bar_width
        /\ Gap(size + 1) >= gap
        /\ Padding(size + 1) >= padding
        /\ RadiusAfterClamp(size + 1) >= radius
        /\ size < 2875 => padding = Floor1000(88, size)
        /\ top = Floor1000(150, size)
        /\ bar_width = Floor1000(195, size)
        /\ gap = Floor1000(220, size)
        /\ radius = Floor1000(186, size)

\* C7 (as claimed): the inner outline is the outer outline shrunk inward on
\* every side, so it reaches neither outside the outer outline nor the canvas.
InnerWithinOuter ==
    Reached("inner_draw") =>
        /\ left_x1 <= inner_left_x1
        /\ inner_left_x2 <= left_x2
        /\ right_x1 <= inner_right_x1
        /\ inner_right_x2 <= right_x2
        /\ top <= inner_top
        /\ inner_radius = Max(radius - padding, 8)
        /\ inner_arc_bottom = bar_bottom + padding + 2 * inner_radius
        /\ inner_radius <= radius
        /\ inner_arc_bottom <= arc_bottom

\* C7 at the favicon's size: the same statement for size 48.
InnerWithinOuterFavicon ==
    (Reached("inner_draw") /\ size = 48) =>
        /\ inner_radius <= radius
        /\ inner_arc_bottom <= arc_bottom
        /\ inner_arc_bottom <= size

\* C8: every box handed to a drawing primitive is well-ordered (x0 <= x1 and
\* y0 <= y1), for every size, the very small ones included.
BoxesWellOrdered ==
    /\ Reached("outer") =>
          /\ WellOrdered(OuterLeftBox)
          /\ WellOrdered(OuterRightBox)
          /\ WellOrdered(OuterPieBox)
    /\ Reached("inner_draw") =>
          /\ WellOrdered(InnerLeftBox)
          /\ WellOrdered(InnerRightBox)
          /\ WellOrdered(InnerPieBox)

\* C8 witness: a size below 20 whose inner rectangles are one pixel wide.
BoxesWellOrderedWitness ==
    /\ pc = "inner_draw" /\ size = 12
    /\ inner_left_x1 = inner_left_x2
    /\ inner_right_x1 = inner_right_x2

\* The colour of an unpainted pixel, as the claims state it.
ExpectedCanvas == IF include_background THEN background ELSE <<0, 0, 0, 0>>

AtCorner == px \in {0, size - 1} /\ py \in {0, size - 1}

\* C2: the four corner pixels of the returned canvas are never painted: the
\* final mask is zero there and the pixel is background when include_background
\* is true, fully transparent when it is false.
CornersUnpainted ==
    (pc = "done" /\ AtCorner) => (mask = 0 /\ image = ExpectedCanvas)

\* C2 witness: a returned canvas of one pixel, whose only pixel is all four
\* corners and lies inside the outer pillar rectangle.
CornersUnpaintedWitness ==
    /\ pc = "done" /\ size = 1 /\ AtCorner
    /\ outer_mask = 255 /\ ~include_background /\ image = <<0, 0, 0, 0>>

\* C4: every pixel of the returned canvas is the primary argument where the
\* final mask selects it and the canvas colour elsewhere; the monochrome
\* canvas (black primary, no background) holds black and transparent pixels
\* and none of the default PRIMARY colour.
TwoColoursOnly ==
    pc = "done" =>
        /\ \/ (mask = 255 /\ image = primary)
           \/ (mask = 0 /\ image = ExpectedCanvas)
        /\ (primary = <<0, 0, 0, 255>> /\ ~include_background) =>
              /\ image \in {<<0, 0, 0, 255>>, <<0, 0, 0, 0>>}
              /\ <<image[1], image[2], image[3]>> # <<58, 84, 96>>

\* C4 witness: a painted pixel of the 432-pixel monochrome canvas.
TwoColoursOnlyWitness ==
    /\ pc = "done" /\ size = 432
    /\ primary = <<0, 0, 0, 255>> /\ ~include_background
    /\ mask = 255 /\ image = <<0, 0, 0, 255>>

\* C9: the stroke mask is max(0, outer - inner); the final mask is
\* stroke - wave*stroke/255, i.e. stroke where the wave is 0 and 0 where it is
\* 255; every mask stays in {0, 255} and final <= stroke <= outer.
MaskCompositing ==
    /\ pc # "idle" =>
          /\ mask \in {0, 255} /\ inner \in {0, 255} /\ wave_mask \in {0, 255}
          /\ outer_mask \in {0, 255} /\ stroke_mask \in {0, 255}
    /\ Reached("waves") =>
          /\ stroke_mask = Max(0, outer_mask - inner)
          /\ stroke_mask <= outer_mask
    /\ Reached("paste") =>
          /\ mask = stroke_mask - ((wave_drawn * stroke_mask) \div 255)
          /\ wave_drawn = 0 => mask = stroke_mask
          /\ wave_drawn = 255 => mask = 0
          /\ mask <= stroke_mask

\* C9 witness: a stroke pixel that a wave carves out.
MaskCompositingWitness ==
    /\ pc = "done" /\ outer_mask = 255 /\ inner = 0 /\ stroke_mask = 255
    /\ wave_drawn = 255 /\ mask = 0

(* ------------------------------------------------------------------------ *)
(* Properties of main (checked under SpecMain).                              *)
(* ------------------------------------------------------------------------ *)
ExpectedFiles ==
    << <<"icon.png", 1024, 1024>>,
       <<"splash-icon.png", 1024, 1024>>,
       <<"favicon.png", 48, 48>>,
       <<"android-icon-foreground.png", 512, 512>>,
       <<"android-icon-monochrome.png", 432, 432>>,
       <<"android-icon-background.png", 512, 512>> >>

\* C3: a run that starts from an empty directory and meets no filesystem
\* error ends with exactly the six files of the table, each written once,
\* with the stated names and pixel dimensions, and no other file.
BatchWritesSixFiles ==
    (mpc = "done" /\ DOMAIN disk0 = {}) =>
        /\ saved = ExpectedFiles
        /\ DOMAIN disk = {ExpectedFiles[i][1] : i \in 1..6}
        /\ \A i \in 1..6 :
              disk[ExpectedFiles[i][1]] = <<ExpectedFiles[i][2], ExpectedFiles[i][3]>>

\* C3 witness: such a run has ended, from a directory that did not exist.
BatchWritesSixFilesWitness ==
    /\ mpc = "done" /\ DOMAIN disk0 = {} /\ Len(saved) = 6
    /\ "favicon.png" \in DOMAIN disk /\ disk["favicon.png"] = <<48, 48>>

\* The first k lines a complete run prints.
TableLines(k) ==
    [i \in 1..k |-> <<OutputTable[i].name, OutputTable[i].size, OutputTable[i].size>>]

\* C5: a failed mkdir leaves nothing written and nothing reported; a failed
\* save of entry k aborts at once, with the entries before k on disk and
\* reported and entry k and the later ones neither written nor reported; and
\* at every point the printed lines are the saved files in table order, each
\* line printed after its file was saved (one save ahead only between the
\* save and its print).
BatchAbortsCleanly ==
    /\ Len(saved) <= Len(OutputTable)
    /\ saved = TableLines(Len(saved))
    /\ Len(stdout) <= Len(saved)
    /\ stdout = SubSeq(saved, 1, Len(stdout))
    /\ Len(saved) - Len(stdout) = (IF mpc = "print" THEN 1 ELSE 0)
    /\ (mpc = "aborted" /\ outputs = <<>>) =>
          (saved = <<>> /\ stdout = <<>> /\ disk = disk0)
    /\ (mpc = "aborted" /\ outputs # <<>>) =>
          /\ Len(saved) = idx - 1
          /\ stdout = saved
          /\ \A i \in 1..(idx - 1) :
                /\ OutputTable[i].name \in DOMAIN disk
                /\ disk[OutputTable[i].name] = <<OutputTable[i].size, OutputTable[i].size>>
          /\ \A i \in idx..Len(OutputTable) :
                LET n == OutputTable[i].name
                IN  /\ (n \in DOMAIN disk) <=> (n \in DOMAIN disk0)
                    /\ (n \in DOMAIN disk) => disk[n] = disk0[n]

\* C5 witness: the save of the fourth entry failed after three files were
\* written and reported, in a directory that held an old fourth file.
BatchAbortsCleanlyWitness ==
    /\ mpc = "aborted" /\ idx = 4
    /\ Len(saved) = 3 /\ Len(stdout) = 3
    /\ "android-icon-foreground.png" \in DOMAIN disk
    /\ disk["android-icon-foreground.png"] = <<0, 0>>

====
